---- MODULE Spec2Model ----
(***************************************************************************)
(* Quizly: the video-to-quiz pipeline of apps/quiz_management_app/utils.py *)
(* (URL helpers, temporary audio files, download, transcription, the       *)
(* generation call, payload validation, transactional persistence and the  *)
(* orchestrator create_quiz_from_url) together with the quiz detail API.   *)
(*                                                                         *)
(* Python strings are sequences of one-character strings, so that strip,   *)
(* startswith, split, replace, lower and the substring test are computed   *)
(* character by character as the interpreter computes them.                *)
(***************************************************************************)
EXTENDS Integers, Sequences, FiniteSets, TLC

\* ------------------------------------------------------------------ bounds
\* Number of pieces an input URL of the URL-helper specification is built of.
MaxPieces == 4
\* Number of pipeline runs (calls of create_quiz_from_url), which may overlap.
NumRuns == 2
\* Number of names tempfile can pick for a base file.
NumNames == 2
\* Number of users.
NumUsers == 2

\* --------------------------------------------------------- string helpers
\* The characters str.strip() removes (the ones the model's inputs use).
Whitespace == {" ", "\t", "\n"}

\* The upper-case letters of the model's alphabet and their lower-case forms.
UpperToLower ==
  [c \in {"H", "T", "P", "S", "Y", "O", "U", "B", "E", "A"} |->
     CASE c = "H" -> "h" [] c = "T" -> "t" [] c = "P" -> "p" [] c = "S" -> "s"
       [] c = "Y" -> "y" [] c = "O" -> "o" [] c = "U" -> "u" [] c = "B" -> "b"
       [] c = "E" -> "e" [] c = "A" -> "a"]

\* str.lower()
Lower(s) ==
  [i \in 1..Len(s) |-> IF s[i] \in DOMAIN UpperToLower THEN UpperToLower[s[i]] ELSE s[i]]

RECURSIVE LStrip(_)
LStrip(s) ==
  IF s # <<>> /\ Head(s) \in Whitespace THEN LStrip(Tail(s)) ELSE s

RECURSIVE RStrip(_)
RStrip(s) ==
  IF s # <<>> /\ s[Len(s)] \in Whitespace THEN RStrip(SubSeq(s, 1, Len(s) - 1)) ELSE s

\* str.strip()
Strip(s) == RStrip(LStrip(s))

\* str.startswith(p)
StartsWith(s, p) == Len(s) >= Len(p) /\ SubSeq(s, 1, Len(p)) = p

\* p in s
Contains(s, p) ==
  \E i \in 1..(Len(s) - Len(p) + 1) : SubSeq(s, i, i + Len(p) - 1) = p

\* s.split(c, 1)[0]: the part of s before the first occurrence of character c.
RECURSIVE SplitFirst(_, _)
SplitFirst(s, c) ==
  IF s = <<>> \/ Head(s) = c THEN <<>> ELSE <<Head(s)>> \o SplitFirst(Tail(s), c)

\* s.replace(old, new): every non-overlapping occurrence, left to right.
RECURSIVE Replace(_, _, _)
Replace(s, old, new) ==
  IF s = <<>> THEN <<>>
  ELSE IF StartsWith(s, old)
       THEN new \o Replace(SubSeq(s, Len(old) + 1, Len(s)), old, new)
       ELSE <<Head(s)>> \o Replace(Tail(s), old, new)

\* ------------------------------------------------------------ URL helpers
_YT_SHORT_PREFIX ==
  <<"h", "t", "t", "p", "s", ":", "/", "/", "y", "o", "u", "t", "u", ".", "b", "e", "/">>

_YT_WATCH_PREFIX ==
  <<"h", "t", "t", "p", "s", ":", "/", "/", "w", "w", "w", ".", "y", "o", "u", "t", "u",
    "b", "e", ".", "c", "o", "m", "/", "w", "a", "t", "c", "h", "?", "v", "=">>

\* The two host substrings is_youtube_url looks for.
HostLong == <<"y", "o", "u", "t", "u", "b", "e", ".", "c", "o", "m", "/">>
HostShort == <<"y", "o", "u", "t", "u", ".", "b", "e", "/">>

normalize_youtube_url(url) ==
  LET u == Strip(url)
  IN  IF StartsWith(u, _YT_SHORT_PREFIX)
      THEN Replace(SplitFirst(u, "?"), _YT_SHORT_PREFIX, _YT_WATCH_PREFIX)
      ELSE u

\* A plausible slip: every URL passes the host check.
is_youtube_url_any(url) == TRUE

is_youtube_url(url) ==
  LET u == Lower(url)
  IN  Contains(u, HostLong) \/ Contains(u, HostShort)

\* ------------------------------------------------- inputs of the URL helpers
Pieces ==
  { <<" ">>,
    _YT_SHORT_PREFIX,
    _YT_WATCH_PREFIX,
    <<"h", "t", "t", "p", ":", "/", "/", "y", "o", "u", "t", "u", ".", "b", "e", "/">>,
    <<"H", "T", "T", "P", "S", ":", "/", "/", "Y", "O", "U", "T", "U", ".", "B", "E", "/">>,
    <<"h", "t", "t", "p", "s", ":", "/", "/", "v", "i", "m", "e", "o", ".", "c", "o", "m", "/">>,
    <<"a", "b", "c", "1", "2", "3">>,
    <<"?", "t", "=", "5">> }

RECURSIVE Concat(_)
Concat(ps) == IF ps = <<>> THEN <<>> ELSE Head(ps) \o Concat(Tail(ps))

\* Every string made of at most MaxPieces pieces.
UrlInputs ==
  { Concat(ps) : ps \in UNION { [1..n -> Pieces] : n \in 0..MaxPieces } }

\* ------------------------------------------------------------- JSON values
\* What json.loads yields, as far as the validator looks at it: a scalar is its
\* type and, for a string, its characters; a list is its items; a question
\* entry is its three looked-up values (dict.get gives None for a missing key).
JStr(s) == [t |-> "str", s |-> s]
JNone == [t |-> "none", s |-> <<>>]
JInt == [t |-> "int", s |-> <<>>]
JList(xs) == [t |-> "list", items |-> xs]
JNotList == [t |-> "none", items |-> <<>>]
JQuestion(title, opts, ans) ==
  [t |-> "dict", question_title |-> title, question_options |-> opts, answer |-> ans]
JNotQuestion == [t |-> "str", question_title |-> JNone, question_options |-> JNotList, answer |-> JNone]
JPayload(keys, title, description, questions) ==
  [t |-> "dict", keys |-> keys, title |-> title, description |-> description,
   questions |-> questions]
JNotPayload == [t |-> "list", keys |-> {}, title |-> JNone, description |-> JNone, questions |-> JNotList]

\* The set of items of a list (set(opts)).
Items(xs) == { xs[i] : i \in 1..Len(xs) }

\* ----------------------------------------------------- payload validation
\* The number of questions a payload must hold.
RequiredQuestions == 10
\* The number of options a question must hold.
RequiredOptions == 4

\* A validator's result: the message of the QuizCreationError it raises, or
\* NoError when it returns.
NoError == "(returned)"
MsgPayloadType == "Invalid quiz payload type."
MsgMissingKeys == "Gemini payload missing required keys."
MsgQuestionCount == "Gemini payload must contain exactly 10 questions."
MsgQuestionType == "Invalid question payload."
MsgQuestionTitle == "Each question must have a non-empty question_title."
MsgOptionCount == "Each question must have exactly 4 options."
MsgOptionEmpty == "All options must be non-empty strings."
MsgOptionDistinct == "Options must be distinct."
MsgAnswer == "Answer must be one of the options."

\* A plausible slip: the distinctness and membership checks left out.
_validate_question_lax(q) ==
  IF q.t # "dict" THEN MsgQuestionType
  ELSE IF q.question_title.t # "str" \/ Strip(q.question_title.s) = <<>> THEN MsgQuestionTitle
  ELSE IF q.question_options.t # "list" \/ Len(q.question_options.items) # RequiredOptions
       THEN MsgOptionCount
  ELSE NoError

\* A plausible slip: the answer is compared to the options without regard to
\* letter case and surrounding whitespace.
_validate_question_caseless(q) ==
  LET title == q.question_title
      opts == q.question_options
      ans == q.answer
  IN  IF q.t # "dict" THEN MsgQuestionType
      ELSE IF title.t # "str" \/ Strip(title.s) = <<>> THEN MsgQuestionTitle
      ELSE IF opts.t # "list" \/ Len(opts.items) # RequiredOptions THEN MsgOptionCount
      ELSE IF ~ \A i \in 1..Len(opts.items) :
                  opts.items[i].t = "str" /\ Strip(opts.items[i].s) # <<>>
           THEN MsgOptionEmpty
      ELSE IF Cardinality(Items(opts.items)) # 4 THEN MsgOptionDistinct
      ELSE IF ans.t # "str"
              \/ \A i \in 1..Len(opts.items) :
                   Lower(Strip(ans.s)) # Lower(Strip(opts.items[i].s))
           THEN MsgAnswer
      ELSE NoError

_validate_question(q) ==
  LET title == q.question_title
      opts == q.question_options
      ans == q.answer
  IN  IF q.t # "dict" THEN MsgQuestionType
      ELSE IF title.t # "str" \/ Strip(title.s) = <<>> THEN MsgQuestionTitle
      ELSE IF opts.t # "list" \/ Len(opts.items) # RequiredOptions THEN MsgOptionCount
      ELSE IF ~ \A i \in 1..Len(opts.items) :
                  opts.items[i].t = "str" /\ Strip(opts.items[i].s) # <<>>
           THEN MsgOptionEmpty
      ELSE IF Cardinality(Items(opts.items)) # 4 THEN MsgOptionDistinct
      ELSE IF ans.t # "str" \/ ans \notin Items(opts.items) THEN MsgAnswer
      ELSE NoError

\* for q in questions: _validate_question(q) -- the first failure is raised.
RECURSIVE ValidateQuestions(_)
ValidateQuestions(qs) ==
  IF qs = <<>> THEN NoError
  ELSE IF _validate_question(Head(qs)) # NoError THEN _validate_question(Head(qs))
  ELSE ValidateQuestions(Tail(qs))

\* A plausible slip: an upper limit where the code demands the exact count.
validate_quiz_payload_atmost(payload) ==
  IF payload.t # "dict" THEN MsgPayloadType
  ELSE IF ~ ({"title", "description", "questions"} \subseteq payload.keys) THEN MsgMissingKeys
  ELSE IF payload.questions.t # "list" \/ Len(payload.questions.items) > RequiredQuestions
       THEN MsgQuestionCount
  ELSE ValidateQuestions(payload.questions.items)

\* A plausible slip: the length of the question list tested before the keys.
validate_quiz_payload_count_first(payload) ==
  IF payload.t # "dict" THEN MsgPayloadType
  ELSE IF payload.questions.t # "list" \/ Len(payload.questions.items) # RequiredQuestions
       THEN MsgQuestionCount
  ELSE IF ~ ({"title", "description", "questions"} \subseteq payload.keys) THEN MsgMissingKeys
  ELSE ValidateQuestions(payload.questions.items)

validate_quiz_payload(payload) ==
  IF payload.t # "dict" THEN MsgPayloadType
  ELSE IF ~ ({"title", "description", "questions"} \subseteq payload.keys) THEN MsgMissingKeys
  ELSE IF payload.questions.t # "list" \/ Len(payload.questions.items) # RequiredQuestions
       THEN MsgQuestionCount
  ELSE ValidateQuestions(payload.questions.items)

\* ------------------------------------------------ inputs of the validator
\* The longest question list the validator is given.
MaxQuestions == 11

Opt(c) == JStr(<<c>>)
ABCD == JList(<<Opt("A"), Opt("B"), Opt("C"), Opt("D")>>)
QTitle == JStr(<<"Q", "?">>)

\* A well-formed question entry.
GoodQuestion == JQuestion(QTitle, ABCD, Opt("A"))
GoodQuestionD == JQuestion(QTitle, ABCD, Opt("D"))

\* Question entries that each break one or more constraints.
BadQuestions ==
  { JNotQuestion,
    JQuestion(JNone, ABCD, Opt("A")),
    JQuestion(JStr(<<" ">>), ABCD, Opt("A")),
    JQuestion(QTitle, JNotList, Opt("A")),
    JQuestion(QTitle, JList(<<Opt("A"), Opt("B"), Opt("C")>>), Opt("A")),
    JQuestion(QTitle, JList(<<Opt("A"), Opt("B"), Opt("C"), Opt("D"), Opt("E")>>), Opt("A")),
    JQuestion(QTitle, JList(<<Opt("A"), Opt("B"), Opt("C"), JStr(<<" ">>)>>), Opt("A")),
    JQuestion(QTitle, JList(<<Opt("A"), Opt("B"), Opt("C"), JInt>>), Opt("A")),
    JQuestion(QTitle, JList(<<Opt("A"), Opt("B"), Opt("C"), Opt("A")>>), Opt("A")),
    JQuestion(QTitle, ABCD, Opt("a")),
    JQuestion(QTitle, ABCD, JStr(<<" ", "A">>)),
    JQuestion(QTitle, ABCD, Opt("E")),
    JQuestion(QTitle, ABCD, JNone),
    JQuestion(JNone, JList(<<Opt("A"), Opt("B"), Opt("C")>>), Opt("E")) }

\* Question entries that break any combination of the title, option and
\* answer constraints at once.
MultiBadQuestions ==
  { JQuestion(ti, os, a) :
      ti \in {QTitle, JNone},
      os \in { ABCD,
               JList(<<Opt("A"), Opt("B"), Opt("C")>>),
               JList(<<Opt("A"), JStr(<<" ">>), Opt("C"), Opt("A")>>),
               JList(<<Opt("A"), Opt("B"), Opt("C"), Opt("A")>>) },
      a \in {Opt("A"), Opt("E")} } \ {GoodQuestion}

QuestionInputs == {GoodQuestion, GoodQuestionD} \cup BadQuestions

\* n entries, all equal to g except entry p (if any), which is b.
QuestionList(n, g, p, b) == [i \in 1..n |-> IF i = p THEN b ELSE g]

QuestionLists ==
  { QuestionList(n, GoodQuestion, p, b) :
      n \in 0..MaxQuestions, p \in 0..MaxQuestions, b \in QuestionInputs }

\* 10 entries of which two are deviant.
TwoDeviations ==
  { [i \in 1..RequiredQuestions |-> IF i = ps[1] THEN b1 ELSE IF i = ps[2] THEN b2
                                     ELSE GoodQuestion] :
      ps \in {<<1, 2>>, <<4, 10>>},
      b1 \in BadQuestions \cup MultiBadQuestions,
      b2 \in BadQuestions \cup MultiBadQuestions }

AllKeys == {"title", "description", "questions"}
PTitle == JStr(<<"T">>)
PDescription == JStr(<<"D">>)

\* Payloads: a mapping with all keys and any question list, with any title
\* and description value; a mapping that lacks keys; a mapping with two
\* deviant entries; a questions value that is no list, with or without all
\* keys; a value that is no mapping.
PayloadInputs ==
  { JPayload(AllKeys, ti, PDescription, JList(qs)) : ti \in {PTitle, JNone}, qs \in QuestionLists }
  \cup { JPayload(ks, PTitle, PDescription, JList(qs)) :
           ks \in (SUBSET AllKeys) \ {AllKeys},
           qs \in { QuestionList(n, GoodQuestion, 0, GoodQuestion) : n \in {3, RequiredQuestions} } }
  \cup { JPayload(AllKeys, PTitle, PDescription, JList(qs)) : qs \in TwoDeviations }
  \cup { JPayload(ks, PTitle, PDescription, JNotList) : ks \in SUBSET AllKeys }
  \cup { JNotPayload }

\* ================================================================== state
VARIABLES
  settings,      \* Django settings: [GEMINI_API_KEY, WHISPER_DOWNLOAD_ROOT], set or not
  whisper_model, \* the module global _whisper_model: "None" or "model"
  files,         \* the paths that exist in the temp directory: <<name, suffix>>
  quizzes,       \* the committed Quiz rows
  questions,     \* the committed QuizQuestion rows
  nextId,        \* the Quiz primary-key sequence
  pc,            \* per run: where create_quiz_from_url stands
  url,           \* per run: the argument url
  normalized,    \* per run: the local normalized
  user,          \* per run: the argument user
  tmp,           \* per run: the local tmp (the base name), 0 before make_temp_audio
  payload,       \* per run: the generation response, then the parsed payload
  tx,            \* per run: the rows written inside the open transaction
  outcome,       \* per run: what the call returns or raises
  cleanups,      \* per run: how often cleanup_audio has been called
  trace,         \* per run: the stages entered, in order
  created,       \* per run: the committed Quiz ids the run has made visible
  response,      \* per run: what CreateQuizView.create answers
  arg,           \* the argument of the pure function under test
  ret,           \* the results of its calls, in order
  phase,         \* how many calls have been made
  blacklist,     \* the refresh tokens in the token blacklist table
  expired,       \* the refresh tokens whose lifetime has passed
  logged_out     \* the refresh tokens a logout answered 200 has carried while valid

env == <<settings, whisper_model, files>>
db == <<quizzes, questions, nextId>>
run == <<pc, url, normalized, user, tmp, payload, tx, outcome, cleanups, trace, created,
         response>>
fn == <<arg, ret, phase>>
jwt == <<blacklist, expired, logged_out>>
vars == <<env, db, run, fn, jwt>>

Runs == 1..NumRuns
Names == 1..NumNames
Users == 1..NumUsers

\* ------------------------------------------------------- temp file helpers
\* TempAudio: base_path is <<name, "">>, mp3_path is base_path + ".mp3"; the
\* downloader's own file is base_path + "." + the source's extension.
base_path(n) == <<n, "">>
mp3_path(n) == <<n, ".mp3">>
ext_path(n) == <<n, ".webm">>

\* os.remove inside try/except OSError: the path is gone afterwards, and a
\* missing path is no error.
safe_remove(fs, path) == fs \ {path}

\* A plausible slip: only the base file is removed.
cleanup_audio_base_only(fs, n) == safe_remove(fs, base_path(n))

cleanup_audio(fs, n) == safe_remove(safe_remove(fs, base_path(n)), mp3_path(n))

\* ---------------------------------------------------------------- outcomes
Raised(kind, msg) == [kind |-> kind, msg |-> msg]
Pending == Raised("none", "")
Returned == Raised("Quiz", "")

\* ----------------------------------------------------- inputs of the runs
PipelineUrls ==
  { <<"h", "t", "t", "p", "s", ":", "/", "/", "v", "i", "m", "e", "o", ".", "c", "o", "m",
      "/", "1", "2", "3">>,
    _YT_SHORT_PREFIX \o <<"a", "b", "c", "1", "2", "3", "?", "t", "=", "5">>,
    <<" ">> \o _YT_WATCH_PREFIX \o <<"a", "b", "c", "1", "2", "3">> }

GoodPayload ==
  JPayload(AllKeys, PTitle, PDescription,
           JList(QuestionList(RequiredQuestions, GoodQuestion, 2, GoodQuestionD)))

\* What model.transcribe may give: it raises, or result.get("text") is this.
JRaises == [t |-> "raises", s |-> <<>>]
TranscribeResults ==
  { JRaises, JNone, JStr(<<>>), JStr(<<" ", "\n">>), JStr(<<" ", "h", "i", " ">>) }

\* A generation response: its text attribute (None, or a string) and the JSON
\* document written in that text, if any. In the text the serialization of
\* the document is one element, DocMark (which begins with "{", as the
\* serialization of a mapping does) or ListMark (that of a list); every other
\* element is one character. NoDocument: the text holds no document.
DocMark == "{..}"
ListMark == "[..]"
NoDocument ==
  [t |-> "JSONDecodeError", keys |-> {}, title |-> JNone, description |-> JNone,
   questions |-> JNotList]
Response(text, doc) == [text |-> text, doc |-> doc]

\* The backtick character (a TLA+ string cannot hold it).
Backtick == "<backtick>"

\* Markdown code fences around the document, and prose before it.
Fence == <<Backtick, Backtick, Backtick>>
Fenced(s) == Fence \o <<"j", "s", "o", "n", "\n">> \o s \o <<"\n">> \o Fence
Prose == <<"O", "k", ":", "\n">>
BraceProse == <<"a", " ", "{", "q", "}", ":", " ">>

\* Valid payloads whose strings hold backticks.
TickTitlePayload == [GoodPayload EXCEPT !.title = JStr(<<Backtick, "T", Backtick>>)]
TickOptionPayload ==
  JPayload(AllKeys, PTitle, PDescription,
           JList(QuestionList(RequiredQuestions, GoodQuestion, 1,
                   JQuestion(QTitle,
                             JList(<<JStr(<<Backtick, "A", Backtick>>), Opt("A"), Opt("B"), Opt("C")>>),
                             Opt("A")))))

PipelineResponses ==
  { Response(JNone, NoDocument),
    Response(JStr(<<" ">>), NoDocument),
    Response(JStr(<<"s", "o", "r", "r", "y">>), NoDocument),
    Response(JStr(<<DocMark>>), GoodPayload),
    Response(JStr(Prose \o Fenced(<<DocMark>>)), GoodPayload),
    Response(JStr(BraceProse \o <<DocMark>>), GoodPayload),
    Response(JStr(Fenced(<<DocMark>>) \o <<"\n">> \o Prose), GoodPayload),
    Response(JStr(Fenced(<<DocMark>>)), TickTitlePayload),
    Response(JStr(Fenced(<<DocMark>>)), TickOptionPayload),
    Response(JStr(<<ListMark>>), JNotPayload),
    Response(JStr(<<DocMark>>), JPayload({"title", "questions"}, PTitle, JNone, JList(<<>>))),
    Response(JStr(<<DocMark>>), JPayload(AllKeys, JNone, PDescription, GoodPayload.questions)),
    Response(JStr(<<DocMark>>),
             JPayload(AllKeys, PTitle, PDescription,
                      JList(QuestionList(RequiredQuestions - 1, GoodQuestion, 0, GoodQuestion)))),
    Response(JStr(<<DocMark>>),
             JPayload(AllKeys, PTitle, PDescription,
                      JList(QuestionList(RequiredQuestions + 1, GoodQuestion, 0, GoodQuestion)))),
    Response(JStr(<<DocMark>>),
             JPayload(AllKeys, PTitle, PDescription,
                      JList(QuestionList(RequiredQuestions, GoodQuestion, 3,
                              JQuestion(QTitle, JList(<<Opt("A"), Opt("B"), Opt("C")>>), Opt("A")))))),
    Response(JStr(<<DocMark>>),
             JPayload(AllKeys, PTitle, PDescription,
                      JList(QuestionList(RequiredQuestions, GoodQuestion, RequiredQuestions,
                              JQuestion(QTitle, JList(<<Opt("A"), Opt("B"), Opt("C"), Opt("A")>>), Opt("A")))))),
    Response(JStr(<<DocMark>>),
             JPayload(AllKeys, PTitle, PDescription,
                      JList(QuestionList(RequiredQuestions, GoodQuestion, 1,
                              JQuestion(QTitle, ABCD, Opt("a")))))) }

NoPayload == Response(JNone, NoDocument)

\* An HTTP response: the status and the detail of the body, if it has one.
NoResponse == [status |-> 0, detail |-> ""]
NoDetail == "(no detail)"
ServerError == [status |-> 500, detail |-> NoDetail]
NoTx == [id |-> 0, quizzes |-> {}, questions |-> {}]

\* ------------------------------------------------------------------- Init
InitEnv ==
  /\ settings \in [GEMINI_API_KEY : BOOLEAN, WHISPER_DOWNLOAD_ROOT : BOOLEAN]
  /\ whisper_model = "None"
  /\ files = {}

InitDb ==
  /\ quizzes = {}
  /\ questions = {}
  /\ nextId = 1

InitRuns ==
  /\ pc = [r \in Runs |-> "idle"]
  /\ url = [r \in Runs |-> <<>>]
  /\ normalized = [r \in Runs |-> <<>>]
  /\ user = [r \in Runs |-> 0]
  /\ tmp = [r \in Runs |-> 0]
  /\ payload = [r \in Runs |-> NoPayload]
  /\ tx = [r \in Runs |-> NoTx]
  /\ outcome = [r \in Runs |-> Pending]
  /\ cleanups = [r \in Runs |-> 0]
  /\ trace = [r \in Runs |-> <<>>]
  /\ created = [r \in Runs |-> {}]
  /\ response = [r \in Runs |-> NoResponse]

\* No refresh token is blacklisted or expired, and nobody has logged out.
InitJwt ==
  /\ blacklist = {}
  /\ expired = {}
  /\ logged_out = {}

InitFn ==
  /\ arg = <<>>
  /\ ret = <<>>
  /\ phase = 0

Init == InitEnv /\ InitDb /\ InitRuns /\ InitFn /\ InitJwt

\* ================================================================ actions
\* @transaction.atomic on _persist_quiz: rows written inside it become visible
\* on commit and are discarded when an exception leaves it.
NoTransaction == FALSE
InTransaction == TRUE

\* A run's exception (or return value) is on its way out through the finally
\* clause of create_quiz_from_url.
\* CreateQuizView.create, after the request serializer has accepted the URL:
\* the response for what create_quiz_from_url returned or raised. The two
\* except clauses answer 400 and 500 with a detail, a returned Quiz is
\* answered 201 with its serialization, and any other exception leaves the
\* view and is answered by the framework's server-error page.
CreateQuizView_create(o) ==
  IF o.kind = "InvalidYouTubeUrlError"
  THEN [status |-> 400, detail |-> "Only YouTube URLs are allowed."]
  ELSE IF o.kind = "QuizCreationError" THEN [status |-> 500, detail |-> o.msg]
  ELSE IF o.kind = "Quiz" THEN [status |-> 201, detail |-> NoDetail]
  ELSE ServerError

Unwind(r, o) ==
  /\ outcome' = [outcome EXCEPT ![r] = o]
  /\ pc' = [pc EXCEPT ![r] = "finally"]

\* create_quiz_from_url up to the try: normalize, check the host, and create
\* the temporary base file (tempfile picks a name that does not exist; the
\* creation may fail with OSError, which nothing catches).
Start(r) ==
  /\ pc[r] = "idle"
  /\ IF r = 1 THEN TRUE ELSE pc[r - 1] # "idle"  \* runs are numbered as they start
  /\ \E u \in PipelineUrls, usr \in Users :
       LET n == normalize_youtube_url(u)
       IN  /\ url' = [url EXCEPT ![r] = u]
           /\ normalized' = [normalized EXCEPT ![r] = n]
           /\ user' = [user EXCEPT ![r] = usr]
           /\ IF ~ is_youtube_url(n)
              THEN /\ pc' = [pc EXCEPT ![r] = "failed"]
                   /\ outcome' = [outcome EXCEPT ![r] =
                                    Raised("InvalidYouTubeUrlError", "Not a YouTube URL.")]
                   /\ response' = [response EXCEPT ![r] = CreateQuizView_create(outcome'[r])]
                   /\ UNCHANGED <<tmp, files>>
              ELSE \/ /\ pc' = [pc EXCEPT ![r] = "failed"]
                      /\ outcome' = [outcome EXCEPT ![r] = Raised("OSError", "tempfile")]
                      /\ response' = [response EXCEPT ![r] = CreateQuizView_create(outcome'[r])]
                      /\ UNCHANGED <<tmp, files>>
                   \/ \E name \in Names :
                        /\ base_path(name) \notin files
                        /\ files' = files \cup {base_path(name)}
                        /\ tmp' = [tmp EXCEPT ![r] = name]
                        /\ pc' = [pc EXCEPT ![r] = "download"]
                        /\ UNCHANGED <<outcome, response>>
  /\ UNCHANGED <<settings, whisper_model, db, payload, tx, cleanups, trace, created, fn, jwt>>

\* download_audio_from_video: the downloader writes base.<ext> and the
\* postprocessor turns it into base.mp3; on any exception, whatever was
\* written so far is on disk, cleanup_audio runs and QuizCreationError is raised.
Download(r) ==
  /\ pc[r] = "download"
  /\ trace' = [trace EXCEPT ![r] = Append(@, "download")]
  /\ \/ /\ files' = files \cup {mp3_path(tmp[r])}
        /\ pc' = [pc EXCEPT ![r] = "transcribe"]
        /\ UNCHANGED <<outcome, cleanups>>
     \/ \E written \in SUBSET {ext_path(tmp[r]), mp3_path(tmp[r])} :
          /\ files' = cleanup_audio(files \cup written, tmp[r])
          /\ cleanups' = [cleanups EXCEPT ![r] = @ + 1]
          /\ Unwind(r, Raised("QuizCreationError", "Error downloading audio: ..."))
  /\ UNCHANGED <<settings, whisper_model, db, url, normalized, user, tmp, payload, tx,
                 created, response, fn, jwt>>

\* get_whisper_model: the cached model, or a load. load is whether
\* whisper.load_model returns ("ok") or raises. The global is assigned before
\* the elapsed time is computed from t0, and t0 is assigned only when a
\* download root is configured.
get_whisper_model(model, load) ==
  IF model # "None" THEN [model |-> model, raised |-> "no"]
  ELSE IF load # "ok" THEN [model |-> "None", raised |-> "load_model"]
  ELSE IF ~ settings.WHISPER_DOWNLOAD_ROOT
       THEN [model |-> "model", raised |-> "UnboundLocalError: t0"]
  ELSE [model |-> "model", raised |-> "no"]

\* The body of generate_transcript's try: the message of what it raises, or NoError.
TranscriptError(got, res) ==
  IF got.raised # "no" THEN got.raised
  ELSE IF res.t = "raises" THEN "transcribe"
  ELSE IF res.t # "str" THEN "Whisper returned invalid transcript text."
  ELSE IF Strip(res.s) = <<>> THEN "Whisper returned an empty transcript."
  ELSE NoError

\* What generate_transcript gives its caller: the trimmed text, or the
\* QuizCreationError its except clause raises.
TranscriptRaised == [t |-> "QuizCreationError", s |-> <<>>]
generate_transcript(got, res) ==
  IF TranscriptError(got, res) = NoError THEN JStr(Strip(res.s)) ELSE TranscriptRaised

\* generate_transcript on the handle of run r, with what load_model and
\* model.transcribe do: its effect on the module global, the files and the run.
TranscribeWith(r, load, res) ==
  LET got == get_whisper_model(whisper_model, load)
  IN  /\ whisper_model' = got.model
      /\ IF generate_transcript(got, res) # TranscriptRaised
         THEN /\ pc' = [pc EXCEPT ![r] = "generate"]
              /\ UNCHANGED <<files, cleanups, outcome>>
         ELSE /\ files' = cleanup_audio(files, tmp[r])
              /\ cleanups' = [cleanups EXCEPT ![r] = @ + 1]
              /\ Unwind(r, Raised("QuizCreationError", "Error transcribing audio: ..."))

\* A plausible slip: a failed transcription is tried a second time.
TranscribeRetryOnce(r) ==
  /\ pc[r] = "transcribe"
  /\ trace' = [trace EXCEPT ![r] = Append(@, "transcribe")]
  /\ \E load \in {"ok", "raises"}, res \in TranscribeResults :
       LET got == get_whisper_model(whisper_model, load)
       IN  IF generate_transcript(got, res) = TranscriptRaised
              /\ "transcribe" \notin Items(trace[r])
           THEN /\ whisper_model' = got.model
                /\ UNCHANGED <<pc, files, cleanups, outcome>>
           ELSE TranscribeWith(r, load, res)
  /\ UNCHANGED <<settings, db, url, normalized, user, tmp, payload, tx, created, response, fn, jwt>>

\* generate_transcript
Transcribe(r) ==
  /\ pc[r] = "transcribe"
  /\ trace' = [trace EXCEPT ![r] = Append(@, "transcribe")]
  /\ \E load \in {"ok", "raises"}, res \in TranscribeResults : TranscribeWith(r, load, res)
  /\ UNCHANGED <<settings, db, url, normalized, user, tmp, payload, tx, created, response, fn, jwt>>

\* get_ai_response: gemini_client raises QuizCreationError without an API key,
\* before any request; generate_content returns a response or raises whatever
\* the client library raises.
\* A plausible slip: the client is built without looking at the key, and the
\* request goes out, which the service refuses when the key is missing.
GenerateUnchecked(r) ==
  /\ pc[r] = "generate"
  /\ trace' = [trace EXCEPT ![r] = Append(@, "generate_content")]
  /\ \/ /\ Unwind(r, Raised("APIError", "generate_content"))
        /\ UNCHANGED payload
     \/ /\ settings.GEMINI_API_KEY
        /\ \E resp \in PipelineResponses :
             /\ payload' = [payload EXCEPT ![r] = resp]
             /\ pc' = [pc EXCEPT ![r] = "validate"]
             /\ UNCHANGED outcome
  /\ UNCHANGED <<env, db, url, normalized, user, tmp, tx, cleanups, created, response, fn, jwt>>

Generate(r) ==
  /\ pc[r] = "generate"
  /\ IF ~ settings.GEMINI_API_KEY
     THEN /\ trace' = [trace EXCEPT ![r] = Append(@, "gemini_client")]
          /\ Unwind(r, Raised("QuizCreationError", "Missing GEMINI_API_KEY in settings."))
          /\ UNCHANGED payload
     ELSE /\ trace' = [trace EXCEPT ![r] = Append(@, "generate_content")]
          /\ \/ /\ Unwind(r, Raised("APIError", "generate_content"))
                /\ UNCHANGED payload
             \/ \E resp \in PipelineResponses :
                  /\ payload' = [payload EXCEPT ![r] = resp]
                  /\ pc' = [pc EXCEPT ![r] = "validate"]
                  /\ UNCHANGED outcome
  /\ UNCHANGED <<env, db, url, normalized, user, tmp, tx, cleanups, created, response, fn, jwt>>

\* str.replace(backtick, "") on a string, and on the serialization of a document:
\* in a JSON text a backtick outside the document's strings cannot occur, and
\* one inside a string is taken out of that string.
NotBacktick(c) == c # Backtick
RemoveBackticks(s) == SelectSeq(s, NotBacktick)
RemoveBackticksValue(v) == IF v.t = "str" THEN JStr(RemoveBackticks(v.s)) ELSE v
RECURSIVE RemoveBackticksValues(_)
RemoveBackticksValues(vs) ==
  IF vs = <<>> THEN <<>>
  ELSE <<RemoveBackticksValue(Head(vs))>> \o RemoveBackticksValues(Tail(vs))
RemoveBackticksList(l) ==
  IF l.t = "list" THEN JList(RemoveBackticksValues(l.items)) ELSE l
RemoveBackticksQuestion(q) ==
  IF q.t = "dict"
  THEN JQuestion(RemoveBackticksValue(q.question_title),
                 RemoveBackticksList(q.question_options),
                 RemoveBackticksValue(q.answer))
  ELSE q
RECURSIVE RemoveBackticksQuestions(_)
RemoveBackticksQuestions(qs) ==
  IF qs = <<>> THEN <<>>
  ELSE <<RemoveBackticksQuestion(Head(qs))>> \o RemoveBackticksQuestions(Tail(qs))
RemoveBackticksDocument(p) ==
  [p EXCEPT !.title = RemoveBackticksValue(@),
            !.description = RemoveBackticksValue(@),
            !.questions = IF @.t = "list" THEN JList(RemoveBackticksQuestions(@.items))
                          ELSE @]

\* re.sub(r"^[^{]*", "", text): the longest prefix without "{" is dropped.
RECURSIVE DropToBrace(_)
DropToBrace(s) ==
  IF s = <<>> THEN <<>>
  ELSE IF Head(s) \in {"{", DocMark} THEN s
  ELSE DropToBrace(Tail(s))

\* extract_json: the text it returns and the document written in that text.
extract_json(resp) ==
  [text |-> Strip(RemoveBackticks(DropToBrace(resp.text.s))),
   doc |-> RemoveBackticksDocument(resp.doc)]

\* parse_quiz_json: json.loads succeeds when the extracted text is one JSON
\* document and nothing else; NoDocument stands for its JSONDecodeError.
parse_quiz_json(resp) ==
  LET extracted == extract_json(resp)
  IN  IF extracted.text = <<DocMark>> THEN extracted.doc ELSE NoDocument

\* Lines 400-404: the text check, parse_quiz_json and validate_quiz_payload.
ResponseError(resp) ==
  IF resp.text.t # "str" \/ Strip(resp.text.s) = <<>>
  THEN "Gemini returned an empty or invalid response."
  ELSE LET parsed == parse_quiz_json(resp)
       IN  IF parsed.t = "JSONDecodeError" THEN "Gemini returned invalid JSON: ..."
           ELSE validate_quiz_payload(parsed)

\* A plausible slip: a response that fails the checks is asked for again.
ValidateRetry(r) ==
  /\ pc[r] = "validate"
  /\ LET error == ResponseError(payload[r])
     IN  IF error = NoError
         THEN /\ pc' = [pc EXCEPT ![r] = "persist"]
              /\ trace' = [trace EXCEPT ![r] = Append(@, "validate")]
              /\ payload' = [payload EXCEPT ![r] = Response(JNone, parse_quiz_json(payload[r]))]
         ELSE /\ pc' = [pc EXCEPT ![r] = "generate"]
              /\ trace' = [trace EXCEPT ![r] = SubSeq(@, 1, Len(@) - 1)]
              /\ payload' = [payload EXCEPT ![r] = NoPayload]
  /\ UNCHANGED <<env, db, url, normalized, user, tmp, tx, outcome, cleanups, created, response, fn, jwt>>

\* From here on the run reads the parsed payload only, and the model keeps
\* the payload without the text it was parsed from.
Validate(r) ==
  /\ pc[r] = "validate"
  /\ trace' = [trace EXCEPT ![r] = Append(@, "validate")]
  /\ LET error == ResponseError(payload[r])
     IN  IF error = NoError
         THEN /\ pc' = [pc EXCEPT ![r] = "persist"]
              /\ payload' = [payload EXCEPT ![r] = Response(JNone, parse_quiz_json(payload[r]))]
              /\ UNCHANGED outcome
         ELSE /\ Unwind(r, Raised("QuizCreationError", error))
              /\ UNCHANGED payload
  /\ UNCHANGED <<env, db, url, normalized, user, tmp, tx, cleanups, created, response, fn, jwt>>

\* The Quiz row Quiz.objects.create writes, and the QuizQuestion rows
\* bulk_create writes for the first k items of the payload.
QuizRowFrom(id, doc, video_url, usr) ==
  [id |-> id, title |-> doc.title, description |-> doc.description,
   video_url |-> video_url, user |-> usr]

QuestionRowsFrom(id, doc, k) ==
  { [quiz |-> id, pos |-> i,
     question_title |-> doc.questions.items[i].question_title,
     question_options |-> doc.questions.items[i].question_options,
     answer |-> doc.questions.items[i].answer] : i \in 1..k }

QuizRow(id, r) == QuizRowFrom(id, payload[r].doc, normalized[r], user[r])

QuestionRows(id, r, k) == QuestionRowsFrom(id, payload[r].doc, k)

\* _persist_quiz, first statement: Quiz.objects.create. The storage layer may
\* reject the row (it does when title or description is null), which raises a
\* database error out of the atomic block.
PersistCreate(r) ==
  /\ pc[r] = "persist"
  /\ trace' = [trace EXCEPT ![r] = Append(@, "persist")]
  /\ \/ /\ Unwind(r, Raised("DatabaseError", "Quiz.objects.create"))
        /\ UNCHANGED <<db, tx, created>>
     \/ /\ payload[r].doc.title.t = "str"
        /\ payload[r].doc.description.t = "str"
        /\ nextId' = nextId + 1
        /\ pc' = [pc EXCEPT ![r] = "bulk_create"]
        /\ IF InTransaction
           THEN /\ tx' = [tx EXCEPT ![r] = [id |-> nextId, quizzes |-> {QuizRow(nextId, r)},
                                            questions |-> {}]]
                /\ UNCHANGED <<quizzes, created>>
           ELSE /\ quizzes' = quizzes \cup {QuizRow(nextId, r)}
                /\ created' = [created EXCEPT ![r] = @ \cup {nextId}]
                /\ tx' = [tx EXCEPT ![r] = [id |-> nextId, quizzes |-> {}, questions |-> {}]]
        /\ UNCHANGED <<questions, outcome>>
  /\ UNCHANGED <<env, url, normalized, user, tmp, payload, cleanups, response, fn, jwt>>

\* _persist_quiz, second statement and return: bulk_create writes the rows one
\* after the other and may fail after any number k of them; leaving the atomic
\* block commits on return and rolls back on an exception.
BulkCreate(r) ==
  /\ pc[r] = "bulk_create"
  /\ LET id == tx[r].id
         n == Len(payload[r].doc.questions.items)
     IN  \/ \E k \in 0..(n - 1) :
              /\ IF InTransaction
                 THEN UNCHANGED <<quizzes, questions>>
                 ELSE /\ questions' = questions \cup QuestionRows(id, r, k)
                      /\ UNCHANGED quizzes
              /\ Unwind(r, Raised("DatabaseError", "bulk_create"))
              /\ UNCHANGED created
         \/ /\ quizzes' = quizzes \cup tx[r].quizzes
            /\ questions' = questions \cup QuestionRows(id, r, n)
            /\ created' = [created EXCEPT ![r] = @ \cup {id}]
            /\ Unwind(r, Returned)
  /\ tx' = [tx EXCEPT ![r] = [NoTx EXCEPT !.id = tx[r].id]]
  /\ UNCHANGED <<env, nextId, url, normalized, user, tmp, payload, cleanups, trace, response, fn, jwt>>

\* A plausible slip: the exception leaves without the finally clause.
FinallySkipped(r) ==
  /\ pc[r] = "finally"
  /\ pc' = [pc EXCEPT ![r] = IF outcome[r].kind = "Quiz" THEN "done" ELSE "failed"]
  /\ response' = [response EXCEPT ![r] = CreateQuizView_create(outcome[r])]
  /\ UNCHANGED <<env, db, url, normalized, user, tmp, payload, tx, outcome, cleanups,
                 trace, created, fn, jwt>>

\* The finally clause of create_quiz_from_url, then the return or the raise.
Finally(r) ==
  /\ pc[r] = "finally"
  /\ files' = cleanup_audio(files, tmp[r])
  /\ cleanups' = [cleanups EXCEPT ![r] = @ + 1]
  /\ pc' = [pc EXCEPT ![r] = IF outcome[r].kind = "Quiz" THEN "done" ELSE "failed"]
  /\ response' = [response EXCEPT ![r] = CreateQuizView_create(outcome[r])]
  /\ payload' = [payload EXCEPT ![r] = NoPayload]   \* the locals end with the call
  /\ UNCHANGED <<settings, whisper_model, db, url, normalized, user, tmp, tx,
                 outcome, trace, created, fn, jwt>>

\* ------------------------------------------------------- the quiz detail API
\* IsQuizOwner.has_object_permission
\* A plausible slip: IsAuthenticated alone, without the object permission.
IsAuthenticatedOnly(u, q) == u \in Users
IsQuizOwner(u, q) == q.user = u

\* Request bodies of PUT/PATCH: the fields received and their values.
NewTitle == JStr(<<"T", "2">>)
NewDescription == JStr(<<"D", "2">>)
UpdateInputs == SUBSET {"title", "description", "video_url"}

\* StrictModelSerializer.to_internal_value with QuizUpdateSerializer's fields,
\* and the required fields of a non-partial update.
UpdateAccepted(method, received) ==
  /\ received \subseteq {"title", "description"}
  /\ method = "PUT" => {"title", "description"} \subseteq received

\* QuizDetailView PUT/PATCH: only the owner, only title and description.
UpdateQuiz(u, q, method, received) ==
  /\ q \in quizzes
  /\ IsQuizOwner(u, q)
  /\ UpdateAccepted(method, received)
  /\ quizzes' = (quizzes \ {q}) \cup
       { [q EXCEPT !.title = IF "title" \in received THEN NewTitle ELSE @,
                   !.description = IF "description" \in received THEN NewDescription ELSE @] }
  /\ UNCHANGED <<env, questions, nextId, run>>

\* QuizDetailView DELETE: only the owner; the questions go with the quiz.
DeleteQuiz(u, q) ==
  /\ q \in quizzes
  /\ IsQuizOwner(u, q)
  /\ quizzes' = quizzes \ {q}
  /\ questions' = { x \in questions : x.quiz # q.id }
  /\ UNCHANGED <<env, nextId, run>>

\* ------------------------------------------------------------ specification
Next ==
  \/ \E r \in Runs : Start(r)
  \/ \E r \in Runs : Download(r)
  \/ \E r \in Runs : Transcribe(r)
  \/ \E r \in Runs : Generate(r)
  \/ \E r \in Runs : Validate(r)
  \/ \E r \in Runs : PersistCreate(r)
  \/ \E r \in Runs : BulkCreate(r)
  \/ \E r \in Runs : Finally(r)
  \/ \E u \in Users, q \in quizzes, m \in {"PUT", "PATCH"}, d \in UpdateInputs :
       UpdateQuiz(u, q, m, d) /\ UNCHANGED <<fn, jwt>>
  \/ \E u \in Users, q \in quizzes : DeleteQuiz(u, q) /\ UNCHANGED <<fn, jwt>>

Spec == Init /\ [][Next]_vars

\* ------------------------------------------- the URL helpers on their own
\* normalize_youtube_url applied to an input, then to its own result.
InitNormalize ==
  /\ settings = [GEMINI_API_KEY |-> TRUE, WHISPER_DOWNLOAD_ROOT |-> TRUE]
  /\ whisper_model = "None"
  /\ files = {}
  /\ InitDb /\ InitRuns /\ InitJwt
  /\ arg \in UrlInputs
  /\ ret = <<>>
  /\ phase = 0

CallNormalize ==
  /\ phase < 2
  /\ ret' = Append(ret, normalize_youtube_url(IF phase = 0 THEN arg ELSE ret[phase]))
  /\ phase' = phase + 1
  /\ UNCHANGED <<env, db, run, arg, jwt>>

SpecNormalize == InitNormalize /\ [][CallNormalize]_vars

\* --------------------------------------------- the validator on its own
InitValidate ==
  /\ settings = [GEMINI_API_KEY |-> TRUE, WHISPER_DOWNLOAD_ROOT |-> TRUE]
  /\ whisper_model = "None"
  /\ files = {}
  /\ InitDb /\ InitRuns /\ InitJwt
  /\ arg \in PayloadInputs
  /\ ret = <<>>
  /\ phase = 0

CallValidate ==
  /\ phase = 0
  /\ ret' = <<validate_quiz_payload(arg)>>
  /\ phase' = 1
  /\ UNCHANGED <<env, db, run, arg, jwt>>

SpecValidate == InitValidate /\ [][CallValidate]_vars

\* ================================================================= claims
Terminal == {"done", "failed"}

\* The rows in the committed tables that belong to the Quiz id a run allocated.
QuizRowsOf(qs, id) == { q \in qs : q.id = id }
QuestionRowsOf(xs, id) == { x \in xs : x.quiz = id }
QuizOf(id) == QuizRowsOf(quizzes, id)
QuestionsOf(id) == QuestionRowsOf(questions, id)

HasRecognizedHost(u) ==
  LET l == Lower(u)
  IN  \E h \in {HostLong, HostShort} :
        \E i \in 1..Len(l) :
          /\ i + Len(h) - 1 <= Len(l)
          /\ \A k \in 1..Len(h) : l[i + k - 1] = h[k]

\* C2: a run whose input URL holds no recognized host substring fails with
\* InvalidYouTubeUrlError, is_youtube_url being false, without a temporary
\* file and without any stage having been entered.
C2_HostGating ==
  \A r \in Runs :
    (pc[r] # "idle" /\ ~ HasRecognizedHost(url[r]))
      => /\ ~ is_youtube_url(url[r])
         /\ pc[r] = "failed"
         /\ outcome[r].kind = "InvalidYouTubeUrlError"
         /\ tmp[r] = 0 /\ trace[r] = <<>> /\ cleanups[r] = 0

\* C2 witness: a run given such a URL has failed while the other run's
\* temporary file is the only thing on disk.
C2_Witness ==
  \E r \in Runs :
    /\ pc[r] = "failed" /\ ~ HasRecognizedHost(url[r]) /\ url[r] # <<>>
    /\ \A p \in files : \E o \in Runs \ {r} : p = base_path(tmp[o])

\* C3 (as claimed): every failure a run surfaces is InvalidYouTubeUrlError or
\* QuizCreationError.
C3_OnlyTwoErrorKinds ==
  \A r \in Runs :
    pc[r] = "failed" => outcome[r].kind \in {"InvalidYouTubeUrlError", "QuizCreationError"}

\* C4: a run that fails leaves no Quiz or QuizQuestion row of its own in the
\* stored tables, and the step by which a run succeeds adds exactly one Quiz
\* row and its 10 QuizQuestion rows and nothing else.
C4_AllOrNothing ==
  [][\A r \in Runs :
       /\ (pc'[r] = "failed" /\ tx'[r].id # 0)
            => /\ QuizRowsOf(quizzes', tx'[r].id) = {}
               /\ QuestionRowsOf(questions', tx'[r].id) = {}
       /\ (outcome[r].kind # "Quiz" /\ outcome'[r].kind = "Quiz")
            => /\ quizzes \subseteq quizzes' /\ questions \subseteq questions'
               /\ Cardinality(quizzes' \ quizzes) = 1
               /\ quizzes' \ quizzes = QuizRowsOf(quizzes', tx[r].id)
               /\ questions' \ questions = QuestionRowsOf(questions', tx[r].id)
               /\ Cardinality(questions' \ questions) = 10]_vars

\* C4 witness: a run has failed on a question with only 3 options while the
\* table holds the other run's quiz.
C4_Witness ==
  \E r \in Runs :
    /\ pc[r] = "failed" /\ outcome[r] = Raised("QuizCreationError", MsgOptionCount)
    /\ \E o \in Runs \ {r} : pc[o] = "done" /\ QuizOf(tx[o].id) # {}

\* C5: at every moment, for the Quiz id a persistence step has allocated,
\* either the Quiz row is visible together with all 10 of its question rows,
\* or neither the Quiz row nor any of its question rows is visible.
C5_PersistAtomic ==
  \A r \in Runs :
    tx[r].id # 0 =>
      \/ QuizOf(tx[r].id) # {} /\ Cardinality(QuestionsOf(tx[r].id)) = 10
      \/ QuizOf(tx[r].id) = {} /\ QuestionsOf(tx[r].id) = {}

\* C5 witness: the question bulk-create of a run has failed after its Quiz
\* row had been written, and a reader finds no row of that quiz.
C5_Witness ==
  \E r \in Runs :
    /\ pc[r] = "failed" /\ outcome[r] = Raised("DatabaseError", "bulk_create")
    /\ tx[r].id # 0 /\ QuizOf(tx[r].id) = {}

\* C6: every stored question has exactly 4 pairwise distinct options and an
\* answer equal to one of them, and belongs to a stored quiz; every stored
\* quiz has exactly 10 questions.
C6_StoredQuestionInvariant ==
  /\ \A x \in questions :
       /\ Len(x.question_options.items) = 4
       /\ \A i, j \in 1..4 : i # j => x.question_options.items[i] # x.question_options.items[j]
       /\ \E i \in 1..4 : x.answer = x.question_options.items[i]
       /\ \E q \in quizzes : q.id = x.quiz
  /\ \A q \in quizzes : Cardinality(QuestionsOf(q.id)) = 10

\* C6 witness: two quizzes are stored, one of them with its title and
\* description changed by its owner.
C6_Witness ==
  /\ Cardinality(quizzes) = 2
  /\ \E q \in quizzes : q.title = NewTitle /\ q.description = NewDescription

\* The stage a failed run failed in.
FailedIn(r) == trace[r][Len(trace[r])]

C8_NormalizeIdempotent ==
  phase = 2 => ret[2] = ret[1]

\* Whether a trimmed URL uses the youtu.be host: scheme http or https, then
\* the host, in any letter case.
UsesShortHost(u) ==
  \/ StartsWith(Lower(u), _YT_SHORT_PREFIX)
  \/ StartsWith(Lower(u), <<"h", "t", "t", "p", ":", "/", "/">> \o HostShort)

\* The video id of such a URL: what follows the host, up to the query string.
VideoId(u) ==
  LET k == IF StartsWith(Lower(u), _YT_SHORT_PREFIX) THEN Len(_YT_SHORT_PREFIX)
           ELSE Len(_YT_SHORT_PREFIX) - 1
  IN  SplitFirst(SubSeq(u, k + 1, Len(u)), "?")

\* C9 (as claimed): the result is the trimmed input, rewritten to the watch
\* prefix followed by the video id when the URL uses the youtu.be host.
C9_NormalizeResult ==
  phase >= 1 =>
    ret[1] = IF UsesShortHost(Strip(arg)) THEN _YT_WATCH_PREFIX \o VideoId(Strip(arg))
             ELSE Strip(arg)

\* A question entry that meets every constraint of section 4.6.
WellFormedQuestion(q) ==
  /\ q.t = "dict"
  /\ q.question_title.t = "str" /\ \E i \in 1..Len(q.question_title.s) :
                                      q.question_title.s[i] \notin Whitespace
  /\ q.question_options.t = "list" /\ Len(q.question_options.items) = 4
  /\ \A i \in 1..Len(q.question_options.items) :
       /\ q.question_options.items[i].t = "str"
       /\ \E k \in 1..Len(q.question_options.items[i].s) :
            q.question_options.items[i].s[k] \notin Whitespace
       /\ \A j \in 1..Len(q.question_options.items) :
            i # j => q.question_options.items[i] # q.question_options.items[j]
  /\ \E i \in 1..Len(q.question_options.items) : q.answer = q.question_options.items[i]

\* C10: the validator rejects every payload whose question list does not hold
\* exactly 10 entries, and accepts every payload that holds title, description
\* and exactly 10 well-formed questions.
C10_ValidationExactness ==
  phase = 1 =>
    /\ (arg.questions.t = "list" /\ Len(arg.questions.items) # 10) => ret[1] # NoError
    /\ ( /\ arg.t = "dict" /\ AllKeys \subseteq arg.keys
         /\ arg.questions.t = "list" /\ Len(arg.questions.items) = 10
         /\ \A i \in 1..10 : WellFormedQuestion(arg.questions.items[i]) )
         => ret[1] = NoError

\* C10 witnesses: a payload of 10 well-formed questions whose title is null has
\* been accepted.
C10_Witness ==
  /\ phase = 1 /\ ret[1] = NoError
  /\ Len(arg.questions.items) = 10 /\ arg.title = JNone

\* ------------------------------------- the question validator on its own
\* Option and answer values that differ by letter case or by surrounding
\* whitespace only, and ones that differ outright.
OptionValues ==
  { Opt("A"), Opt("a"), JStr(<<" ", "A">>), Opt("B"), Opt("C"), Opt("D") }
AnswerValues ==
  { Opt("A"), Opt("a"), JStr(<<"A", " ">>), Opt("D"), Opt("E"), JNone }

\* Question entries with any 4 options and any answer of these values, and
\* the entries that break the other constraints.
QuestionSpace ==
  { JQuestion(QTitle, JList(os), a) : os \in [1..RequiredOptions -> OptionValues],
                                      a \in AnswerValues }
  \cup QuestionInputs

InitQuestion ==
  /\ settings = [GEMINI_API_KEY |-> TRUE, WHISPER_DOWNLOAD_ROOT |-> TRUE]
  /\ whisper_model = "None"
  /\ files = {}
  /\ InitDb /\ InitRuns /\ InitJwt
  /\ arg \in QuestionSpace
  /\ ret = <<>>
  /\ phase = 0

CallValidateQuestion ==
  /\ phase = 0
  /\ ret' = <<_validate_question(arg)>>
  /\ phase' = 1
  /\ UNCHANGED <<env, db, run, arg, jwt>>

SpecQuestion == InitQuestion /\ [][CallValidateQuestion]_vars

\* C11: _validate_question rejects an entry whose 4 options contain a
\* duplicate, rejects an entry whose answer equals none of its options (a
\* difference in letter case or surrounding whitespace included), and accepts
\* a well-formed entry whose answer equals one of its options exactly.
C11_OptionInvariants ==
  phase = 1 =>
    LET os == arg.question_options.items
    IN  /\ (Len(os) = 4 /\ \E i, j \in 1..4 : i # j /\ os[i] = os[j]) => ret[1] # NoError
        /\ (\A i \in 1..Len(os) : arg.answer # os[i]) => ret[1] # NoError
        /\ WellFormedQuestion(arg) => ret[1] = NoError

\* C11 witness: an entry with 4 distinct options, whose answer "a" differs
\* from the option "A" by case only, has been rejected for its answer.
C11_Witness ==
  /\ phase = 1 /\ ret[1] = MsgAnswer
  /\ arg.answer = Opt("a")
  /\ arg.question_options = ABCD

\* ---------------------------------------- the order of the constraints
\* The constraints of section 4.6, each judged on its own. A violation is
\* <<i, c>>: i is 0 for the payload and the position of the entry otherwise,
\* c the rank of the constraint.
PayloadViolated(p) ==
  { v \in {<<0, 1>>, <<0, 2>>, <<0, 3>>} :
      \/ v[2] = 1 /\ p.t # "dict"
      \/ v[2] = 2 /\ p.t = "dict" /\ ~ (AllKeys \subseteq p.keys)
      \/ v[2] = 3 /\ p.t = "dict"
                  /\ (p.questions.t # "list" \/ Len(p.questions.items) # 10) }

QuestionViolated(q) ==
  LET os == q.question_options.items
      isList == q.question_options.t = "list"
      Blank(s) == \A k \in 1..Len(s) : s[k] \in Whitespace
  IN  { c \in 1..6 :
          \/ c = 1 /\ q.t # "dict"
          \/ c = 2 /\ q.t = "dict"
                   /\ (q.question_title.t # "str" \/ Blank(q.question_title.s))
          \/ c = 3 /\ q.t = "dict" /\ (~ isList \/ Len(os) # 4)
          \/ c = 4 /\ q.t = "dict" /\ isList
                   /\ \E i \in 1..Len(os) : os[i].t # "str" \/ Blank(os[i].s)
          \/ c = 5 /\ q.t = "dict" /\ isList
                   /\ \E i, j \in 1..Len(os) : i # j /\ os[i] = os[j]
          \/ c = 6 /\ q.t = "dict" /\ isList
                   /\ \A i \in 1..Len(os) : q.answer # os[i] }

Violated(p) ==
  PayloadViolated(p)
  \cup IF p.t = "dict" /\ p.questions.t = "list"
       THEN { <<i, c>> : i \in 1..Len(p.questions.items), c \in 1..6 }
            \cap { v \in (1..Len(p.questions.items)) \X (1..6) :
                     v[2] \in QuestionViolated(p.questions.items[v[1]]) }
       ELSE {}

\* The violation that comes first: the payload's before the entries', the
\* entries in list order, and within one entry the constraints by rank.
Before(v, w) == v[1] < w[1] \/ (v[1] = w[1] /\ v[2] <= w[2])
FirstViolated(p) == CHOOSE v \in Violated(p) : \A w \in Violated(p) : Before(v, w)

\* The message that belongs to each constraint.
PayloadMessages == <<MsgPayloadType, MsgMissingKeys, MsgQuestionCount>>
QuestionMessages ==
  <<MsgQuestionType, MsgQuestionTitle, MsgOptionCount, MsgOptionEmpty, MsgOptionDistinct,
    MsgAnswer>>
MessageOf(v) == IF v[1] = 0 THEN PayloadMessages[v[2]] ELSE QuestionMessages[v[2]]

\* C12: of several violated constraints validate_quiz_payload reports the
\* one that comes first in the fixed order, and the nine constraints have
\* nine different messages.
C12_FirstViolationReported ==
  /\ Cardinality(Items(PayloadMessages \o QuestionMessages)) = 9
  /\ phase = 1 =>
       ret[1] = IF Violated(arg) = {} THEN NoError ELSE MessageOf(FirstViolated(arg))

\* C12 witness: a payload whose first entry has 3 options and an answer that
\* is none of them, and whose second entry is deviant too, has been refused
\* with the options-count message.
C12_Witness ==
  /\ phase = 1 /\ ret[1] = MsgOptionCount
  /\ {<<1, 3>>, <<1, 6>>} \subseteq Violated(arg)
  /\ \E c \in 1..6 : <<2, c>> \in Violated(arg)

\* ------------------------------------------- fenced and prefaced responses
\* A response that is a valid payload wrapped in code fences and/or preceded
\* by prose: before the document any characters, after it only the closing
\* fence and whitespace.
Wrapped(resp) ==
  /\ resp.text.t = "str"
  /\ validate_quiz_payload(resp.doc) = NoError
  /\ \E k \in 1..Len(resp.text.s) :
       /\ resp.text.s[k] = DocMark
       /\ \A i \in 1..(k - 1) : resp.text.s[i] # DocMark
       /\ \A i \in (k + 1)..Len(resp.text.s) : resp.text.s[i] \in Whitespace \cup {Backtick}

\* C13: a valid 10-question payload wrapped in code fences and/or preceded by
\* prose passes parsing and validation as the payload it is, and the quiz
\* persisted from it has 10 questions whose title, options and answer are
\* those of the payload.
C13_WrappedPayloadPersisted ==
  [][\A r \in Runs :
       /\ (pc[r] = "validate" /\ pc'[r] # "validate" /\ Wrapped(payload[r])) =>
            /\ pc'[r] = "persist"
            /\ payload'[r].doc = payload[r].doc
       /\ (pc[r] = "bulk_create" /\ outcome'[r] = Returned) =>
            /\ Cardinality(QuestionRowsOf(questions', tx[r].id)) = 10
            /\ \A x \in QuestionRowsOf(questions', tx[r].id) :
                 /\ x.question_title = payload[r].doc.questions.items[x.pos].question_title
                 /\ x.question_options = payload[r].doc.questions.items[x.pos].question_options
                 /\ x.answer = payload[r].doc.questions.items[x.pos].answer]_vars

\* ------------------------------------------------------------ termination
\* The positions of a run between its start and its end.
Running ==
  {"download", "transcribe", "generate", "validate", "persist", "bulk_create", "finally"}

\* A step of run r after its start, seen from outside: the run moves on.
\* Every position in Running has a step (the call the run waits for returns
\* or raises), so this is enabled exactly when run r is in Running.
RunStep(r) ==
  /\ pc[r] \in Running
  /\ \E p \in (Running \cup Terminal) \ {pc[r]} : pc' = [pc EXCEPT ![r] = p]

\* create_quiz_from_url is straight-line code: once called it goes on for as
\* long as the call it waits for returns or raises, which weak fairness of
\* its steps expresses.
\* The calls served one after the other, with the requests of the detail API
\* in between.
StartInTurn(r) ==
  /\ IF r = 1 THEN TRUE ELSE pc[r - 1] \in Terminal
  /\ Start(r)

NextLive ==
  \/ \E r \in Runs : StartInTurn(r)
  \/ \E r \in Runs : Download(r)
  \/ \E r \in Runs : Transcribe(r)
  \/ \E r \in Runs : Generate(r)
  \/ \E r \in Runs : Validate(r)
  \/ \E r \in Runs : PersistCreate(r)
  \/ \E r \in Runs : BulkCreate(r)
  \/ \E r \in Runs : Finally(r)
  \/ \E u \in Users, q \in quizzes, m \in {"PUT", "PATCH"}, d \in UpdateInputs :
       UpdateQuiz(u, q, m, d) /\ UNCHANGED <<fn, jwt>>
  \/ \E u \in Users, q \in quizzes : DeleteQuiz(u, q) /\ UNCHANGED <<fn, jwt>>

SpecLive == Init /\ [][NextLive]_vars /\ \A r \in Runs : WF_pc(RunStep(r))

\* C14: a started run eventually is done or failed; it is done exactly when
\* a Quiz was returned and failed exactly when an error was raised; and a run
\* that is done or failed stays so.
C14_Terminates ==
  /\ \A r \in Runs : (pc[r] # "idle") ~> (pc[r] \in Terminal)
  /\ [](\A r \in Runs : /\ pc[r] = "done" => outcome[r] = Returned
                        /\ pc[r] = "failed" => outcome[r].kind \notin {"none", "Quiz"})
  /\ [][\A r \in Runs : pc[r] \in Terminal => pc'[r] = pc[r]]_vars

\* C14 witness: one run is done and the other has failed.
C14_Witness == \E r, s \in Runs : pc[r] = "done" /\ pc[s] = "failed"

\* ------------------------------------------- generate_transcript on its own
\* One call of generate_transcript: run 1 has downloaded its audio, the module
\* global is cold or warm, another handle's files may exist, and load_model
\* and model.transcribe do what arg says.
TranscribeInputs ==
  [load : {"ok", "raises"}, res : TranscribeResults, model : {"None", "model"}]

InitTranscribe ==
  /\ settings \in [GEMINI_API_KEY : BOOLEAN, WHISPER_DOWNLOAD_ROOT : BOOLEAN]
  /\ arg \in TranscribeInputs
  /\ whisper_model = arg.model
  /\ files \in { {base_path(1), mp3_path(1)} \cup others :
                   others \in SUBSET {base_path(NumNames), mp3_path(NumNames)} }
  /\ InitDb /\ InitJwt
  /\ pc = [r \in Runs |-> IF r = 1 THEN "transcribe" ELSE "idle"]
  /\ url = [r \in Runs |-> IF r = 1 THEN _YT_WATCH_PREFIX \o <<"a">> ELSE <<>>]
  /\ normalized = url
  /\ user = [r \in Runs |-> IF r = 1 THEN 1 ELSE 0]
  /\ tmp = [r \in Runs |-> IF r = 1 THEN 1 ELSE 0]
  /\ payload = [r \in Runs |-> NoPayload]
  /\ tx = [r \in Runs |-> NoTx]
  /\ outcome = [r \in Runs |-> Pending]
  /\ cleanups = [r \in Runs |-> 0]
  /\ trace = [r \in Runs |-> IF r = 1 THEN <<"download">> ELSE <<>>]
  /\ created = [r \in Runs |-> {}]
  /\ response = [r \in Runs |-> NoResponse]
  /\ ret = <<>>
  /\ phase = 0

CallTranscribe ==
  /\ phase = 0
  /\ pc[1] = "transcribe"
  /\ trace' = [trace EXCEPT ![1] = Append(@, "transcribe")]
  /\ TranscribeWith(1, arg.load, arg.res)
  /\ ret' = <<generate_transcript(get_whisper_model(whisper_model, arg.load), arg.res)>>
  /\ phase' = 1
  /\ UNCHANGED <<settings, db, url, normalized, user, tmp, payload, tx, created, response, arg, jwt>>

SpecTranscribe == InitTranscribe /\ [][CallTranscribe]_vars

\* The transcription engine fails: loading the model raises, transcribing
\* raises, or the text of the result is no string or is blank.
EngineFails(a) ==
  \/ a.model = "None" /\ a.load = "raises"
  \/ a.res.t # "str"
  \/ \A i \in 1..Len(a.res.s) : a.res.s[i] \in Whitespace

\* C15: generate_transcript raises QuizCreationError when the engine fails,
\* with the handle's base and .mp3 files removed by then, and otherwise
\* returns the non-empty trimmed text.
C15_TranscriptOutcome ==
  phase = 1 =>
    IF EngineFails(arg)
    THEN /\ ret[1] = TranscriptRaised
         /\ outcome[1].kind = "QuizCreationError"
         /\ base_path(1) \notin files /\ mp3_path(1) \notin files
    ELSE /\ ret[1].t = "str" /\ ret[1].s # <<>>
         /\ ret[1].s = Strip(arg.res.s)

\* C16: the create-quiz endpoint answers 400 to InvalidYouTubeUrlError, 500
\* with the failure's message as detail to QuizCreationError, and 201 to a
\* returned Quiz; a call that has ended has one of these three responses.
C16_ResponseMapping ==
  \A r \in Runs :
    pc[r] \in Terminal =>
      \/ /\ outcome[r].kind = "InvalidYouTubeUrlError"
         /\ response[r].status = 400
      \/ /\ outcome[r].kind = "QuizCreationError"
         /\ response[r] = [status |-> 500, detail |-> outcome[r].msg]
      \/ /\ outcome[r] = Returned
         /\ response[r].status = 201

\* --------------------------------------------- the quiz detail API on its own
\* Requests to the detail endpoint after every run has created a quiz, run r
\* for user ((r - 1) mod NumUsers) + 1. arg is the last request, ret its status.
ApiInputs ==
  (SUBSET {"title", "description"})
  \cup { {"video_url"}, {"user"}, {"questions"}, {"title", "description", "video_url"} }
ApiMethods == {"GET", "PUT", "PATCH", "DELETE"}
UserOf(r) == ((r - 1) % NumUsers) + 1
ApiUrl == _YT_WATCH_PREFIX \o <<"a", "b", "c", "1", "2", "3">>
CreatedQuiz(r) == QuizRowFrom(r, GoodPayload, ApiUrl, UserOf(r))
CreatedQuestions(r) == QuestionRowsFrom(r, GoodPayload, RequiredQuestions)
NoRequest == [user |-> 0, quiz |-> 0, method |-> "", received |-> {}]

\* The state of the runs and the tables then (a state the runs reach).
ApiStartReached ==
  /\ quizzes = { CreatedQuiz(r) : r \in Runs }
  /\ questions = UNION { CreatedQuestions(r) : r \in Runs }
  /\ nextId = NumRuns + 1
  /\ pc = [r \in Runs |-> "done"]
  /\ url = [r \in Runs |-> <<" ">> \o ApiUrl]
  /\ normalized = [r \in Runs |-> ApiUrl]
  /\ user = [r \in Runs |-> UserOf(r)]
  /\ tmp = [r \in Runs |-> 1]
  /\ payload = [r \in Runs |-> NoPayload]
  /\ tx = [r \in Runs |-> [NoTx EXCEPT !.id = r]]
  /\ outcome = [r \in Runs |-> Returned]
  /\ cleanups = [r \in Runs |-> 1]
  /\ trace = [r \in Runs |->
                <<"download", "transcribe", "generate_content", "validate", "persist">>]
  /\ created = [r \in Runs |-> {r}]
  /\ response = [r \in Runs |-> CreateQuizView_create(Returned)]
  /\ settings = [GEMINI_API_KEY |-> TRUE, WHISPER_DOWNLOAD_ROOT |-> TRUE]
  /\ whisper_model = "model"
  /\ files = {}

InitApi ==
  /\ ApiStartReached
  /\ InitJwt
  /\ arg = NoRequest
  /\ ret = <<>>
  /\ phase = 0

\* The status QuizDetailView answers: the object permission is checked when
\* the object is fetched, the serializer then validates an update.
QuizDetailStatus(u, q, method, received) ==
  IF ~ IsQuizOwner(u, q) THEN 403
  ELSE IF method \in {"PUT", "PATCH"}
       THEN IF UpdateAccepted(method, received) THEN 200 ELSE 400
  ELSE IF method = "DELETE" THEN 204
  ELSE 200

DetailRequest(u, q, method, received) ==
  /\ q \in quizzes
  /\ arg' = [user |-> u, quiz |-> q.id, method |-> method, received |-> received]
  /\ ret' = <<QuizDetailStatus(u, q, method, received)>>
  /\ IF method \in {"PUT", "PATCH"}
        /\ IsQuizOwner(u, q) /\ UpdateAccepted(method, received)
     THEN UpdateQuiz(u, q, method, received)
     ELSE IF method = "DELETE" /\ IsQuizOwner(u, q)
          THEN DeleteQuiz(u, q)
          ELSE UNCHANGED <<env, db, run>>
  /\ UNCHANGED <<phase, jwt>>

NextApi ==
  \E u \in Users, q \in quizzes, m \in ApiMethods, d \in ApiInputs : DetailRequest(u, q, m, d)

SpecApi == InitApi /\ [][NextApi]_vars

\* C17: a stored quiz has the video_url, the owner and the questions it was
\* created with; its row changes only by a PUT or PATCH of its owner that
\* carries no field but title and description; a request of a non-owner is
\* answered 403 and changes nothing; an update carrying another field is
\* refused and changes nothing.
C17_OwnerEditsOnly ==
  /\ [](\A q \in quizzes :
          /\ q.video_url = CreatedQuiz(q.id).video_url
          /\ q.user = CreatedQuiz(q.id).user
          /\ QuestionsOf(q.id) = CreatedQuestions(q.id))
  /\ [][/\ \A q \in quizzes :
             (q \notin quizzes' /\ \E n \in quizzes' : n.id = q.id) =>
               /\ arg'.user = q.user /\ arg'.quiz = q.id
               /\ arg'.method \in {"PUT", "PATCH"}
               /\ arg'.received \subseteq {"title", "description"}
        /\ \A q \in quizzes :
             (arg'.quiz = q.id /\ arg'.user # q.user) =>
               /\ ret' = <<403>>
               /\ UNCHANGED db
        /\ (arg'.method \in {"PUT", "PATCH"}
            /\ ~ (arg'.received \subseteq {"title", "description"})) =>
               /\ ret'[1] \in {400, 403}
               /\ UNCHANGED db]_vars

\* C17 witness: the owner of quiz 1 has changed its title by PATCH, and the
\* last request, a PUT of another user on that quiz, was answered 403.
C17_Witness ==
  /\ \E q \in quizzes : q.id = 1 /\ q.title = NewTitle /\ q.description = PDescription
  /\ arg.quiz = 1 /\ arg.user # UserOf(1) /\ arg.method = "PUT"
  /\ ret = <<403>>

\* ------------------------------------------------------ the order of stages
\* The stages after URL validation, in the order of section 3; the trace
\* records the generation stage by the call it got to.
StageOrder == <<"download", "transcribe", "generate", "validate", "persist">>
StageOf(e) == IF e \in {"gemini_client", "generate_content"} THEN "generate" ELSE e

\* C18: the stages a run has entered are an initial part of the fixed order,
\* each entered once; a stage is entered only after the URL was accepted and
\* while no earlier stage has failed; and what was entered stays entered.
C18_StagesInOrder ==
  /\ [](\A r \in Runs :
          /\ Len(trace[r]) <= Len(StageOrder)
          /\ \A i \in 1..Len(trace[r]) : StageOf(trace[r][i]) = StageOrder[i]
          /\ trace[r] # <<>> => is_youtube_url(normalized[r]))
  /\ [][\A r \in Runs :
          trace'[r] # trace[r] =>
            /\ outcome[r] = Pending
            /\ Len(trace'[r]) = Len(trace[r]) + 1
            /\ SubSeq(trace'[r], 1, Len(trace[r])) = trace[r]]_vars

\* C18 witness: one run has gone through all five stages and is done, the
\* other has failed in validation without entering persistence.
C18_Witness ==
  \E r, s \in Runs :
    /\ pc[r] = "done" /\ Len(trace[r]) = 5
    /\ pc[s] = "failed" /\ Len(trace[s]) = 4 /\ trace[s][4] = "validate"

\* C19: when the download or the transcoding fails, no file written for the
\* handle is left (whatever its extension) once download_audio_from_video has
\* raised, and what it raises is a QuizCreationError.
C19_DownloadFailureCleans ==
  [][\A r \in Runs :
       (pc[r] = "download" /\ pc'[r] = "finally") =>
         /\ outcome'[r].kind = "QuizCreationError"
         /\ \A f \in files' \ files : f[1] # tmp[r]
         /\ base_path(tmp[r]) \notin files']_vars

\* C20: without an API key a run that gets to the generation stage fails
\* there with QuizCreationError, raised by gemini_client before any request:
\* no run sends a request to the generative-language service.
C20_KeyCheckedFirst ==
  ~ settings.GEMINI_API_KEY =>
    \A r \in Runs :
      /\ "generate_content" \notin Items(trace[r])
      /\ pc[r] \notin {"validate", "persist", "bulk_create", "done"}
      /\ Len(trace[r]) >= 3 =>
           /\ trace[r][3] = "gemini_client"
           /\ outcome[r] = Raised("QuizCreationError", "Missing GEMINI_API_KEY in settings.")

\* C20 witness: without an API key a run has downloaded and transcribed, and
\* has failed at the generation stage.
C20_Witness ==
  /\ ~ settings.GEMINI_API_KEY
  /\ \E r \in Runs :
       /\ pc[r] = "failed"
       /\ trace[r] = <<"download", "transcribe", "gemini_client">>
       /\ response[r] = [status |-> 500, detail |-> "Missing GEMINI_API_KEY in settings."]

\* ------------------------------------------------- ownership of the handle
\* The handle of run s is live: make_temp_audio has returned it and neither
\* the run nor a stage acting for it has released it by cleanup_audio.
LiveHandle(s) == pc[s] \in Running \ {"finally"} /\ cleanups[s] = 0

\* The base and .mp3 files of the handle of run s that exist.
HandleFiles(s) == {base_path(tmp[s]), mp3_path(tmp[s])} \cap files

\* C24: a step of run r leaves on disk the base and .mp3 files of every other
\* run's live handle, also when the step is the cleanup that the finally
\* clause repeats after the download or the transcription has failed and has
\* released the handle of r; and the handles of two live runs differ.
C24_HandleExclusive ==
  /\ [](\A r, s \in Runs : (r # s /\ LiveHandle(r) /\ LiveHandle(s)) => tmp[r] # tmp[s])
  /\ [][\A r, s \in Runs :
          (r # s /\ pc'[r] # pc[r] /\ LiveHandle(s)) => HandleFiles(s) \subseteq files']_vars

\* --------------------------------- get_whisper_model, statement by statement
\* generate_transcript with the statements of get_whisper_model as steps, so
\* that calls of several threads interleave where the interpreter can switch.
\* Every run has downloaded its audio and calls generate_transcript; the
\* process starts cold. ret gets one entry per finished get_whisper_model
\* call, in the order they finish: the run, what was returned, what was
\* raised. phase counts the models whisper.load_model has returned.

\* The instance whisper.load_model returns to run r (every load builds a new one).
LoadedModel(r) == "model loaded by run " \o ToString(r)

InitWhisper ==
  /\ settings \in [GEMINI_API_KEY : BOOLEAN, WHISPER_DOWNLOAD_ROOT : BOOLEAN]
  /\ whisper_model = "None"
  /\ files = UNION { {base_path(r), mp3_path(r)} : r \in Runs }
  /\ InitDb /\ InitJwt
  /\ pc = [r \in Runs |-> "transcribe"]
  /\ url = [r \in Runs |-> ApiUrl]
  /\ normalized = url
  /\ user = [r \in Runs |-> UserOf(r)]
  /\ tmp = [r \in Runs |-> r]
  /\ payload = [r \in Runs |-> NoPayload]
  /\ tx = [r \in Runs |-> NoTx]
  /\ outcome = [r \in Runs |-> Pending]
  /\ cleanups = [r \in Runs |-> 0]
  /\ trace = [r \in Runs |-> <<"download">>]
  /\ created = [r \in Runs |-> {}]
  /\ response = [r \in Runs |-> NoResponse]
  /\ arg = <<>>
  /\ ret = <<>>
  /\ phase = 0

\* The positions of a run inside get_whisper_model.
InWhisper == {"load_model", "elapsed", "return_model"}

\* The except clause of generate_transcript.
TranscribeExcept(r) ==
  /\ files' = cleanup_audio(files, tmp[r])
  /\ cleanups' = [cleanups EXCEPT ![r] = @ + 1]
  /\ Unwind(r, Raised("QuizCreationError", "Error transcribing audio: ..."))

\* What a finished get_whisper_model call gave generate_transcript.
WhisperCall(r, model, raised) == [run |-> r, model |-> model, raised |-> raised]

\* generate_transcript calls get_whisper_model, which reads the global
\* (line 176): a cached model is returned (line 178), otherwise it is loaded.
WhisperCheck(r) ==
  /\ pc[r] = "transcribe"
  /\ trace' = [trace EXCEPT ![r] = Append(@, "transcribe")]
  /\ pc' = [pc EXCEPT ![r] = IF whisper_model # "None" THEN "return_model" ELSE "load_model"]
  /\ UNCHANGED <<env, db, url, normalized, user, tmp, payload, tx, outcome, cleanups,
                 created, response, fn, jwt>>

\* Lines 197-200: whisper.load_model returns a model, which is stored in the
\* global, or it raises. (The model is built by the call and invisible to the
\* other threads until the store.)
WhisperLoad(r) ==
  /\ pc[r] = "load_model"
  /\ \/ /\ whisper_model' = LoadedModel(r)
        /\ phase' = phase + 1
        /\ pc' = [pc EXCEPT ![r] = "elapsed"]
        /\ UNCHANGED <<files, cleanups, outcome, ret>>
     \/ /\ ret' = Append(ret, WhisperCall(r, "None", "load_model"))
        /\ TranscribeExcept(r)
        /\ UNCHANGED <<whisper_model, phase>>
  /\ UNCHANGED <<settings, db, url, normalized, user, tmp, payload, tx, trace, created,
                 response, arg, jwt>>

\* Line 202: the elapsed time is computed from t0, which line 194 has
\* assigned only when a download root is configured.
WhisperElapsed(r) ==
  /\ pc[r] = "elapsed"
  /\ IF settings.WHISPER_DOWNLOAD_ROOT
     THEN /\ pc' = [pc EXCEPT ![r] = "return_model"]
          /\ UNCHANGED <<files, cleanups, outcome, ret>>
     ELSE /\ ret' = Append(ret, WhisperCall(r, "None", "UnboundLocalError: t0"))
          /\ TranscribeExcept(r)
  /\ UNCHANGED <<settings, whisper_model, db, url, normalized, user, tmp, payload, tx,
                 trace, created, response, arg, phase, jwt>>

\* Lines 178 and 205 return the global as it is then; generate_transcript
\* goes on with model.transcribe on that model (lines 218-233).
WhisperReturn(r) ==
  /\ pc[r] = "return_model"
  /\ ret' = Append(ret, WhisperCall(r, whisper_model, "no"))
  /\ \E res \in TranscribeResults :
       IF generate_transcript([model |-> whisper_model, raised |-> "no"], res) # TranscriptRaised
       THEN /\ pc' = [pc EXCEPT ![r] = "generate"]
            /\ UNCHANGED <<files, cleanups, outcome>>
       ELSE TranscribeExcept(r)
  /\ UNCHANGED <<settings, whisper_model, db, url, normalized, user, tmp, payload, tx,
                 trace, created, response, arg, phase, jwt>>

NextWhisper ==
  \/ \E r \in Runs : WhisperCheck(r)
  \/ \E r \in Runs : WhisperLoad(r)
  \/ \E r \in Runs : WhisperElapsed(r)
  \/ \E r \in Runs : WhisperReturn(r)

\* The calls of concurrent runs.
SpecWhisper == InitWhisper /\ [][NextWhisper]_vars

\* The calls one after the other: a run calls when no other run is inside.
WhisperCheckInTurn(r) ==
  /\ \A s \in Runs : pc[s] \notin InWhisper
  /\ WhisperCheck(r)

NextWhisperSeq ==
  \/ \E r \in Runs : WhisperCheckInTurn(r)
  \/ \E r \in Runs : WhisperLoad(r)
  \/ \E r \in Runs : WhisperElapsed(r)
  \/ \E r \in Runs : WhisperReturn(r)

SpecWhisperSeq == InitWhisper /\ [][NextWhisperSeq]_vars

\* C21: in a sequence of get_whisper_model calls one after the other, at
\* most one model is ever loaded; a call in which whisper.load_model does not
\* raise returns a model, the one loaded by the first such call; and a call
\* after that one loads nothing.
C21_LoadedOnce ==
  /\ [](/\ phase <= 1
        /\ \A i \in 1..Len(ret) :
             ret[i].raised # "load_model" =>
               /\ ret[i].raised = "no"
               /\ ret[i].model # "None"
               /\ \A j \in 1..(i - 1) : ret[j].raised = "no" => ret[j].model = ret[i].model)
  /\ [][(\E i \in 1..Len(ret) : ret[i].raised # "load_model") => phase' = phase]_vars

\* C22: with the calls of concurrent runs interleaved, the global holds
\* nothing or a model whisper.load_model has returned, a call that returns
\* gives such a model, and the global, once set, keeps its value.
C22_MemoSetOnce ==
  /\ [](/\ whisper_model \in {"None"} \cup { LoadedModel(r) : r \in Runs }
        /\ \A i \in 1..Len(ret) :
             ret[i].raised = "no" => ret[i].model \in { LoadedModel(r) : r \in Runs })
  /\ [][whisper_model # "None" => whisper_model' = whisper_model]_vars

\* ------------------------------------------------- logout and token refresh
\* Requests to the logout and the token-refresh endpoints, with the refresh
\* tokens that the logins of the users have issued, one per user. arg is the
\* last request, ret its response, phase the number of requests made.
MaxRequests == 3
RefreshTokens == Users

\* request.COOKIES.get("refresh_token"): no cookie, a blank string, a string
\* that is no token, or a refresh token that a login has issued.
NoCookie == [t |-> "none", token |-> 0]
BlankCookie == [t |-> "blank", token |-> 0]
GarbageCookie == [t |-> "garbage", token |-> 0]
TokenCookie(n) == [t |-> "token", token |-> n]
RefreshCookies == {NoCookie, BlankCookie, GarbageCookie} \cup { TokenCookie(n) : n \in RefreshTokens }

\* RefreshToken(token): the constructor verifies the token and raises
\* TokenError for a string that is no token, for an expired token and for a
\* blacklisted one.
RefreshTokenVerifies(c) ==
  c.t = "token" /\ c.token \notin expired /\ c.token \notin blacklist

\* LogoutView._blacklist_refresh: the blacklist afterwards. blacklisting is
\* whether RefreshToken.blacklist() does its work ("ok") or raises; the
\* method swallows TokenError and every other exception.
_blacklist_refresh(c, blacklisting) ==
  IF RefreshTokenVerifies(c) /\ blacklisting = "ok"
  THEN blacklist \cup {c.token}
  ELSE blacklist

\* A response: the status, the cookies it deletes and the cookies it sets.
JwtResponse(status, deleted, set) == [status |-> status, deleted |-> deleted, set |-> set]
NoAuthRequest ==
  [view |-> "", authenticated |-> FALSE, cookie |-> NoCookie, blacklisting |-> ""]

InitAuth ==
  /\ settings = [GEMINI_API_KEY |-> TRUE, WHISPER_DOWNLOAD_ROOT |-> TRUE]
  /\ whisper_model = "None"
  /\ files = {}
  /\ InitDb /\ InitRuns /\ InitJwt
  /\ arg = NoAuthRequest
  /\ ret = <<>>
  /\ phase = 0

\* LogoutView.post behind permission_classes = [IsAuthenticated]: a request
\* that is not authenticated by its access token is refused before post
\* runs (401, or 403 when the authenticator names no challenge); otherwise a
\* non-blank refresh cookie is blacklisted at best effort, and the answer is
\* 200 with both cookies deleted.
Logout(authenticated, c, blacklisting) ==
  /\ phase < MaxRequests
  /\ phase' = phase + 1
  /\ arg' = [view |-> "logout", authenticated |-> authenticated, cookie |-> c,
             blacklisting |-> blacklisting]
  /\ IF ~ authenticated
     THEN /\ \E status \in {401, 403} : ret' = <<JwtResponse(status, {}, {})>>
          /\ UNCHANGED <<blacklist, logged_out>>
     ELSE /\ blacklist' = IF c.t \in {"garbage", "token"}
                          THEN _blacklist_refresh(c, blacklisting)
                          ELSE blacklist
          /\ logged_out' = IF RefreshTokenVerifies(c) THEN logged_out \cup {c.token}
                           ELSE logged_out
          /\ ret' = <<JwtResponse(200, {"access_token", "refresh_token"}, {})>>
  /\ UNCHANGED <<env, db, run, expired>>

\* AuthenticatedViaRefreshToken.has_permission
AuthenticatedViaRefreshToken(c) == c.t # "none" /\ RefreshTokenVerifies(c)

\* CookieTokenRefreshView.post behind its permission: 403 without a valid
\* refresh cookie, 401 when the serializer's validation raises TokenError,
\* otherwise 200 with a new access token set as cookie.
CookieTokenRefreshView_post(c) ==
  IF ~ AuthenticatedViaRefreshToken(c) THEN JwtResponse(403, {}, {})
  ELSE IF ~ RefreshTokenVerifies(c) THEN JwtResponse(401, {}, {})
  ELSE JwtResponse(200, {}, {"access_token"})

Refresh(c) ==
  /\ phase < MaxRequests
  /\ phase' = phase + 1
  /\ arg' = [view |-> "refresh", authenticated |-> FALSE, cookie |-> c, blacklisting |-> ""]
  /\ ret' = <<CookieTokenRefreshView_post(c)>>
  /\ UNCHANGED <<env, db, run, jwt>>

\* Time passes: the lifetime of a refresh token ends.
Expire(n) ==
  /\ n \notin expired
  /\ expired' = expired \cup {n}
  /\ UNCHANGED <<env, db, run, fn, blacklist, logged_out>>

NextAuth ==
  \/ \E a \in BOOLEAN, c \in RefreshCookies, b \in {"ok", "raises"} : Logout(a, c, b)
  \/ \E c \in RefreshCookies : Refresh(c)
  \/ \E n \in RefreshTokens : Expire(n)

SpecAuth == InitAuth /\ [][NextAuth]_vars

\* C23: once a logout has been answered for a request that carried a valid
\* refresh token, no later refresh request with that token is answered 200
\* with a new access token; and the logout of an authenticated request is
\* answered 200 and deletes both cookies, whatever the blacklisting does.
C23_LogoutRevokes ==
  [][phase' # phase =>
       /\ (arg'.view = "refresh" /\ arg'.cookie.t = "token"
           /\ arg'.cookie.token \in logged_out) =>
            /\ ret'[1].status # 200
            /\ "access_token" \notin ret'[1].set
       /\ (arg'.view = "logout" /\ arg'.authenticated) =>
            ret'[1] = JwtResponse(200, {"access_token", "refresh_token"}, {})]_vars

\* ------------------------------------- runs with the same collaborators
\* The calls of create_quiz_from_url served one after the other in one
\* process, every call with the same URL and with collaborators that behave
\* the same: arg says whether the temporary file can be created, whether the
\* download works, what whisper.load_model and model.transcribe do, whether
\* generate_content answers and what, and whether the two database writes
\* work. The user and the name of the temporary file are free.
OutcomeUrls ==
  { <<"h", "t", "t", "p", "s", ":", "/", "/", "v", "i", "m", "e", "o", ".", "c", "o", "m",
      "/", "1", "2", "3">>,
    <<" ">> \o ApiUrl }
OutcomeResponses ==
  { Response(JStr(Prose \o Fenced(<<DocMark>>)), GoodPayload),
    Response(JStr(<<"s", "o", "r", "r", "y">>), NoDocument) }
OutcomeInputs ==
  [url : OutcomeUrls, tempfile : BOOLEAN, download : BOOLEAN, load : {"ok", "raises"},
   res : {JRaises, JStr(<<" ", "\n">>), JStr(<<" ", "h", "i", " ">>)},
   generate : BOOLEAN, resp : OutcomeResponses, create : BOOLEAN, bulk_create : BOOLEAN]

InitOutcome ==
  /\ InitEnv /\ InitDb /\ InitRuns /\ InitJwt
  /\ arg \in OutcomeInputs
  /\ ret = <<>>
  /\ phase = 0

StartAs(r) ==
  /\ StartInTurn(r)
  /\ url'[r] = arg.url
  /\ outcome'[r].kind = "OSError" <=> (is_youtube_url(normalized'[r]) /\ ~ arg.tempfile)

DownloadAs(r) == Download(r) /\ (pc'[r] = "transcribe" <=> arg.download)

TranscribeAs(r) ==
  /\ pc[r] = "transcribe"
  /\ trace' = [trace EXCEPT ![r] = Append(@, "transcribe")]
  /\ TranscribeWith(r, arg.load, arg.res)
  /\ UNCHANGED <<settings, db, url, normalized, user, tmp, payload, tx, created, response, fn, jwt>>

GenerateAs(r) ==
  /\ Generate(r)
  /\ pc'[r] = "validate" => (arg.generate /\ payload'[r] = arg.resp)
  /\ (arg.generate /\ settings.GEMINI_API_KEY) => pc'[r] = "validate"

PersistCreateAs(r) == PersistCreate(r) /\ (pc'[r] = "bulk_create" <=> arg.create)

BulkCreateAs(r) == BulkCreate(r) /\ (outcome'[r] = Returned <=> arg.bulk_create)

NextOutcome ==
  \/ \E r \in Runs : StartAs(r)
  \/ \E r \in Runs : DownloadAs(r)
  \/ \E r \in Runs : TranscribeAs(r)
  \/ \E r \in Runs : GenerateAs(r)
  \/ \E r \in Runs : Validate(r)
  \/ \E r \in Runs : PersistCreateAs(r)
  \/ \E r \in Runs : BulkCreateAs(r)
  \/ \E r \in Runs : Finally(r)

SpecOutcome == InitOutcome /\ [][NextOutcome]_vars

\* C25: runs with the same URL and the same collaborator behaviour end the
\* same way, done or failed and with the same kind of error, the first run
\* of the process and the later ones alike; and whether a download root is
\* configured or not, a run fails in transcription only when the engine
\* does: load_model raises, transcribe raises, or the text is blank.
C25_OutcomeDeterministic ==
  /\ \A r, s \in Runs :
       (pc[r] \in Terminal /\ pc[s] \in Terminal) =>
         /\ pc[r] = pc[s]
         /\ outcome[r].kind = outcome[s].kind
  /\ \A r \in Runs :
       (pc[r] = "failed" /\ trace[r] # <<>> /\ FailedIn(r) = "transcribe") =>
         \/ arg.load = "raises"
         \/ arg.res.t # "str"
         \/ Strip(arg.res.s) = <<>>

====
